---- MODULE Spec2Model ----
(***************************************************************************)
(* Model of the charging automation decision engine                        *)
(* (src/charging_automation/ChargingAutomation.py) and of the vehicle and  *)
(* solar clients it calls.                                                 *)
(*                                                                         *)
(* Watt quantities the allocator divides are exact rationals <<n, d>>      *)
(* (d > 0, lowest terms); Python computes them in binary floating point,   *)
(* whose rounding is not modelled.                                         *)
(***************************************************************************)
EXTENDS Integers, Sequences, FiniteSets, TLC

VARIABLES
    vehicles,          \* the list handed to allocate_power / built at line 126
    available_power,   \* allocate_power's second argument (watts)
    allocations,       \* the list allocate_power returned, or <<>> before the call
    grid_consumption,  \* calculate_delta_amp's first argument (watts)
    vehicle_type,      \* calculate_delta_amp's second argument
    delta_amp,         \* calculate_delta_amp's result
    hubitat,           \* the configuration/display provider and what it answers
    mode,              \* the AutomationMode the cycle resolved, or "unset"
    hour,              \* datetime.now().hour during the cycle
    power_flow,        \* the outcome of get_current_power_flow
    log,               \* the calls the steps of the cycle have made, in order
                       \* (not the reads by which current_power, allocate_power
                       \* and the display text consult the vehicles again)
    ineffect,          \* per vehicle, the last command issued to it so far
    prev,              \* what the cycle before observed and commanded, when kept
    pc                 \* position of the running call or cycle

callVars == <<grid_consumption, vehicle_type, delta_amp>>
cycleVars == <<hubitat, mode, hour, power_flow, log, ineffect>>

vars == <<vehicles, available_power, allocations, grid_consumption,
          vehicle_type, delta_amp, hubitat, mode, hour, power_flow, log,
          ineffect, prev, pc>>

-----------------------------------------------------------------------------
(* Bounds of the model *)

\* longest vehicle list handed to allocate_power
MaxVehicles == 3
\* |grid_consumption| handed to calculate_delta_amp ranges over 0..MaxGrid
MaxGrid == 1500

-----------------------------------------------------------------------------
(* Exact arithmetic *)

Abs(x) == IF x < 0 THEN -x ELSE x

RECURSIVE GCD(_, _)
GCD(a, b) == IF b = 0 THEN a ELSE GCD(b, a % b)

\* n/d in lowest terms with a positive denominator
Rat(n, d) ==
    LET s == IF d < 0 THEN -1 ELSE 1
        g == GCD(Abs(n), Abs(d))
    IN  <<(s * n) \div g, (s * d) \div g>>

RatInt(i) == <<i, 1>>
RatAdd(a, b) == Rat(a[1] * b[2] + b[1] * a[2], a[2] * b[2])
RatSub(a, b) == Rat(a[1] * b[2] - b[1] * a[2], a[2] * b[2])
RatMul(a, k) == Rat(a[1] * k, a[2])
RatDiv(a, k) == Rat(a[1], a[2] * k)
RatLE(a, b) == a[1] * b[2] <= b[1] * a[2]
RatLT(a, b) == a[1] * b[2] < b[1] * a[2]
RatMin(a, b) == IF RatLE(a, b) THEN a ELSE b
RatMax(a, b) == IF RatLT(a, b) THEN b ELSE a

\* math.floor and math.ceil of the quotient n/d of two integers, d > 0
FloorDiv(n, d) == n \div d
CeilDiv(n, d) == -((-n) \div d)

-----------------------------------------------------------------------------
(* allocate_power *)

\* sorted(vehicles, key=lambda v: v.get_battery_level()): a stable ascending
\* sort; InsertSorted puts v after every element whose key is <= v's key.
RECURSIVE InsertSorted(_, _)
InsertSorted(s, v) ==
    IF s = <<>> THEN <<v>>
    ELSE IF s[Len(s)].battery <= v.battery THEN Append(s, v)
    ELSE Append(InsertSorted(SubSeq(s, 1, Len(s) - 1), v), s[Len(s)])

RECURSIVE SortedByBattery(_)
SortedByBattery(vs) ==
    IF vs = <<>> THEN <<>>
    ELSE InsertSorted(SortedByBattery(SubSeq(vs, 1, Len(vs) - 1)), vs[Len(vs)])

\* a plausible slip: the remaining_power term left out of the min
max_possible_NoRemaining(fair_share, amps_max, remaining_power) ==
    RatMin(RatMul(fair_share, 2), RatInt(amps_max * 240))

\* lines 92-96: min(fair_share * 2, vehicle.AMPS_MAX * 240, remaining_power)
max_possible(fair_share, amps_max, remaining_power) ==
    RatMin(RatMin(RatMul(fair_share, 2), RatInt(amps_max * 240)), remaining_power)

\* a plausible slip: the clamp at zero left out
allocation_NoClamp(mp) == mp

\* line 98: allocation = max(0, max_possible)
allocation(mp) == RatMax(RatInt(0), mp)

\* lines 81-100, the loop over sorted_vehicles from index i on, with the
\* loop's accumulators total_allocated and allocs
RECURSIVE AllocLoop(_, _, _, _, _)
AllocLoop(sorted_vehicles, avail, i, total_allocated, allocs) ==
    IF i > Len(sorted_vehicles) THEN allocs
    ELSE
        LET vehicle == sorted_vehicles[i] IN
        IF ~vehicle.connected
        THEN AllocLoop(sorted_vehicles, avail, i + 1, total_allocated,
                       Append(allocs, RatInt(0)))
        ELSE
            LET remaining_power == RatSub(avail, total_allocated)
                remaining_vehicles == Len(sorted_vehicles) - Len(allocs)
                fair_share == RatDiv(remaining_power, remaining_vehicles)
                a == allocation(max_possible(fair_share, vehicle.AMPS_MAX,
                                             remaining_power))
            IN  AllocLoop(sorted_vehicles, avail, i + 1,
                          RatAdd(total_allocated, a), Append(allocs, a))

\* lines 73-102: the result lists the allocations in the order of
\* sorted_vehicles (the order the loop appends them in)
allocate_power(vs, avail) ==
    AllocLoop(SortedByBattery(vs), RatInt(avail), 1, RatInt(0), <<>>)

-----------------------------------------------------------------------------
(* Inputs of the allocate_power specification *)

BatteryLevels == {20, 50, 80}
AmpsMaxValues == {2, 5}
PowerValues == {-500, 0, 100, 480, 1000, 3000}

ArgVehicles ==
    [battery : BatteryLevels, connected : BOOLEAN, AMPS_MAX : AmpsMaxValues]

SeqsUpTo(S, n) == UNION {[1..k -> S] : k \in 0..n}

\* no calculate_delta_amp call of its own is running
Idle ==
    /\ grid_consumption = 0
    /\ vehicle_type = "none"
    /\ delta_amp = 0

VehicleNames == {"rivian", "tesla"}
NoCommand == [op |-> "none", amps |-> 0]

\* no cycle is running
\* hubitat = None (line 109)
NoHubitat ==
    [present |-> FALSE, automation_on |-> FALSE, night_charging |-> FALSE,
     limit |-> 0]

\* power_flow before line 167 has run
Unread == [status |-> "unread", grid |-> 0]

\* no earlier cycle is kept for comparison
NoPrev ==
    [recorded |-> FALSE, mode |-> "unset", vehicles |-> <<>>,
     power_flow |-> Unread, commands |-> <<>>]

NoCycle ==
    /\ prev = NoPrev
    /\ hubitat = NoHubitat
    /\ mode = "unset"
    /\ hour = 12
    /\ power_flow = Unread
    /\ log = <<>>
    /\ ineffect = [v \in VehicleNames |-> NoCommand]

InitAlloc ==
    /\ vehicles \in SeqsUpTo(ArgVehicles, MaxVehicles)
    /\ available_power \in PowerValues
    /\ allocations = <<>>
    /\ pc = "call"
    /\ Idle
    /\ NoCycle

\* one call of allocate_power(vehicles, available_power)
AllocatePower ==
    /\ pc = "call"
    /\ allocations' = allocate_power(vehicles, available_power)
    /\ pc' = "returned"
    /\ UNCHANGED <<vehicles, available_power, callVars, prev, cycleVars>>

NextAlloc == AllocatePower

SpecAlloc == InitAlloc /\ [][NextAlloc]_vars

-----------------------------------------------------------------------------
(* Claims about allocate_power, checked under SpecAlloc *)

RECURSIVE RatSum(_)
RatSum(s) == IF s = <<>> THEN RatInt(0) ELSE RatAdd(s[1], RatSum(Tail(s)))

Returned == pc = "returned"

\* the entry of the result at the input position i of a vehicle: the pairing
\* zip(vehicles, power_allocations) of run_charging_automation makes
PairedAllocation(i) == allocations[i]

\* C1 (allocation conservation): whenever available_power >= 0, the values
\* allocate_power returned sum to at most available_power.
C1_Conservation ==
    (Returned /\ available_power >= 0)
        => RatLE(RatSum(allocations), RatInt(available_power))

\* a call that hands out the whole of a positive pool to two or more
\* connected vehicles
C1_Witness ==
    /\ Returned
    /\ available_power > 0
    /\ Cardinality({i \in DOMAIN vehicles : vehicles[i].connected}) >= 2
    /\ Cardinality({i \in DOMAIN allocations :
                        RatLT(RatInt(0), allocations[i])}) >= 2
    /\ RatSum(allocations) = RatInt(available_power)

\* C2 (disconnection): the allocation paired with a vehicle whose charger is
\* not connected is 0.
C2_DisconnectedGetsZero ==
    Returned =>
        \A i \in DOMAIN vehicles :
            ~vehicles[i].connected => PairedAllocation(i) = RatInt(0)

\* C3 (priority): of two connected vehicles with unequal battery levels and
\* available_power > 0, the allocation paired with the lower-battery vehicle
\* is >= the one paired with the higher-battery vehicle, in both input orders.
\* Stated for two vehicles of the same AMPS_MAX, the instance of the claim in
\* which the values themselves respect the priority and only their positions
\* in the result decide.
C3_Priority ==
    (/\ Returned
     /\ Len(vehicles) = 2
     /\ \A i \in DOMAIN vehicles : vehicles[i].connected
     /\ \A i, j \in DOMAIN vehicles : vehicles[i].AMPS_MAX = vehicles[j].AMPS_MAX
     /\ available_power > 0)
        => \A lo, hi \in DOMAIN vehicles :
               vehicles[lo].battery < vehicles[hi].battery
                   => RatLE(PairedAllocation(hi), PairedAllocation(lo))

\* C4 (non-negativity): no returned value is negative, and every returned
\* value is 0 when available_power <= 0.
C4_NonNegative ==
    Returned =>
        \A i \in DOMAIN allocations :
            /\ RatLE(RatInt(0), allocations[i])
            /\ available_power <= 0 => allocations[i] = RatInt(0)

\* a call with a negative pool and connected vehicles, and one with a
\* positive pool, both returned
C4_Witness ==
    /\ Returned
    /\ available_power < 0
    /\ Len(allocations) >= 2
    /\ \A i \in DOMAIN vehicles : vehicles[i].connected

-----------------------------------------------------------------------------
(* calculate_delta_amp *)

\* line 32: Tesla supports 1A increments, every other type 2A
increment(vtype) == IF vtype = "tesla" THEN 1 ELSE 2

\* a plausible slip: the sign turned, so that an export raises the amperage
calculate_delta_amp_Positive(g, vtype) ==
    IF g > 0
    THEN -(CeilDiv(Abs(g), 240 * increment(vtype)) * increment(vtype))
    ELSE FloorDiv(Abs(g), 240 * increment(vtype)) * increment(vtype)

\* a plausible slip: the magnitude rounded down on both branches
calculate_delta_amp_FloorBoth(g, vtype) ==
    -(FloorDiv(Abs(g), 240 * increment(vtype)) * increment(vtype))

\* lines 23-45. base_amps = g / 240 and abs(base_amps) / increment is the
\* quotient |g| / (240 * increment), whose ceiling or floor is taken.
calculate_delta_amp(g, vtype) ==
    IF g > 0
    THEN -(CeilDiv(Abs(g), 240 * increment(vtype)) * increment(vtype))
    ELSE -(FloorDiv(Abs(g), 240 * increment(vtype)) * increment(vtype))

VehicleTypes == {"tesla", "rivian"}

InitQuant ==
    /\ grid_consumption \in (-MaxGrid)..MaxGrid
    /\ vehicle_type \in VehicleTypes
    /\ delta_amp = 0
    /\ pc = "call"
    /\ vehicles = <<>>
    /\ available_power = 0
    /\ allocations = <<>>
    /\ NoCycle

\* one call of calculate_delta_amp(grid_consumption, vehicle_type)
CalculateDeltaAmp ==
    /\ pc = "call"
    /\ delta_amp' = calculate_delta_amp(grid_consumption, vehicle_type)
    /\ pc' = "returned"
    /\ UNCHANGED <<vehicles, available_power, allocations, grid_consumption,
                   vehicle_type, cycleVars, prev>>

NextQuant == CalculateDeltaAmp

SpecQuant == InitQuant /\ [][NextQuant]_vars

\* C5 (quantization direction): with s the step of the vehicle type and m the
\* magnitude of the result, the result is -m, m is a multiple of s, m*240
\* covers the import and (m - s)*240 does not when grid_consumption > 0 (the
\* magnitude is rounded up to the step), m*240 does not exceed the export and
\* (m + s)*240 does when grid_consumption <= 0 (rounded down to the step);
\* (1000, step 1) gives -5 and (-1500, step 2) gives -6.
C5_QuantizationDirection ==
    Returned =>
        LET s == IF vehicle_type = "tesla" THEN 1 ELSE 2
            m == -delta_amp
            g == grid_consumption
        IN  /\ m >= 0
            /\ m % s = 0
            /\ g > 0 => (m * 240 >= g /\ (m - s) * 240 < g)
            /\ g <= 0 => (m * 240 <= -g /\ (m + s) * 240 > -g)
            /\ (g = 1000 /\ vehicle_type = "tesla") => delta_amp = -5
            /\ (g = -1500 /\ vehicle_type = "rivian") => delta_amp = -6

\* the import of 1000 W at step 1, rounded up from 4.17 to 5
C5_Witness ==
    /\ Returned
    /\ grid_consumption = 1000
    /\ vehicle_type = "tesla"
    /\ delta_amp = -5

-----------------------------------------------------------------------------
(* run_charging_automation: the clients *)

\* TeslaAPI.AMPS_MIN, TeslaAPI.AMPS_MAX
TeslaAMPS_MIN == 5
TeslaAMPS_MAX == 48
\* RivianAPI.AMPS_MIN, RivianAPI.AMPS_MAX (RivianAPI.py is not among the
\* sources; a vendor range of the kind section 6 of the specification names)
RivianAMPS_MIN == 8
RivianAMPS_MAX == 48

\* what the vehicle backends and the other collaborators may answer
CycleBatteryLevels == {40, 50, 55}
ScheduleAmps == {0, 5}
NightLimits == {50, 55}
Hours == {9, 10, 17, 18}
GridValues == {-5000, -1921, -1920, -1919, -721, -720, -719, 0, 719, 720, 721}

\* One vehicle as the cycle observes it. The backend's state is taken as one
\* snapshot per cycle: every read of the cycle answers from it. charging
\* implies connected: TeslaAPI derives both from the one charging_state
\* ('Charging' is not 'Disconnected'), and a failed read answers False to both.
VehicleSnapshots(kind, amin, amax) ==
    {v \in [kind : {kind}, battery : CycleBatteryLevels, connected : BOOLEAN,
            charging : BOOLEAN, amps : ScheduleAmps,
            AMPS_MIN : {amin}, AMPS_MAX : {amax}] :
        v.charging => v.connected}

\* vehicles = [rivian, tesla] (line 126)
VehicleLists ==
    {<<r, t>> : r \in VehicleSnapshots("rivian", RivianAMPS_MIN, RivianAMPS_MAX),
                t \in VehicleSnapshots("tesla", TeslaAMPS_MIN, TeslaAMPS_MAX)}

\* The provider of line 107 (HubitatAPI, not among the sources) with what it
\* answers to is_automation_on, is_night_charging_on and
\* get_night_charging_limit, or no provider, which is what line 109 sets.
Hubitats ==
    {NoHubitat} \cup
        [present : {TRUE}, automation_on : BOOLEAN, night_charging : BOOLEAN,
         limit : NightLimits]

\* get_current_power_flow: a PowerFlow whose grid is positive when importing,
\* None on a requests.exceptions.RequestException (lines 70-72), or an
\* exception that is not caught, such as the KeyError of line 57 on a response
\* without 'siteCurrentPowerFlow'
PowerFlowOutcomes ==
    [status : {"ok"}, grid : GridValues]
        \cup {[status |-> "None", grid |-> 0], [status |-> "raised", grid |-> 0]}

-----------------------------------------------------------------------------
(* run_charging_automation: the calls it makes, as entries of the log *)

Event(op, v) == [op |-> op, v |-> v, amps |-> 0, grid |-> 0, text |-> ""]
SetScheduleOff(v) == Event("set_schedule_off", v)
SetScheduleDefault(v) == Event("set_schedule_default", v)
SetScheduleAmps(v, a) ==
    [op |-> "set_schedule_amps", v |-> v, amps |-> a, grid |-> 0, text |-> ""]
SetInfoMessage(text, a, g) ==
    [op |-> "set_info_message", v |-> "hubitat", amps |-> a, grid |-> g,
     text |-> text]

CommandOps == {"set_schedule_off", "set_schedule_default", "set_schedule_amps"}
IsCommand(e) == e.op \in CommandOps

\* if hubitat: hubitat.set_info_message(...)
InfoMessage(h, text, a, g) ==
    IF h.present THEN <<SetInfoMessage(text, a, g)>> ELSE <<>>

\* What the client sends its backend for the command c. TeslaAPI clamps the
\* amperage once more (TeslaAPIBackup.py line 98) and sends its default as
\* set_schedule_amps(AMPS_MAX) (lines 103-104); the rivian client (not among
\* the sources) is taken to send what it is given.
Sent(c) ==
    IF c.v = "tesla" /\ c.op = "set_schedule_amps"
    THEN LET lo == IF c.amps < TeslaAMPS_MAX THEN c.amps ELSE TeslaAMPS_MAX
         IN  [op |-> c.op,
              amps |-> IF TeslaAMPS_MIN > lo THEN TeslaAMPS_MIN ELSE lo]
    ELSE IF c.v = "tesla" /\ c.op = "set_schedule_default"
    THEN [op |-> "set_schedule_amps", amps |-> TeslaAMPS_MAX]
    ELSE [op |-> c.op, amps |-> c.amps]

\* the last command of a list of calls stays in effect at its vehicle
RECURSIVE Effect(_, _)
Effect(eff, calls) ==
    IF calls = <<>> THEN eff
    ELSE LET c == calls[1] IN
         Effect(IF IsCommand(c) THEN [eff EXCEPT ![c.v] = Sent(c)] ELSE eff,
                Tail(calls))

-----------------------------------------------------------------------------
(* run_charging_automation: the functions it uses *)

\* lines 18-20
is_night_time(h) == h < 10 \/ h >= 18

\* a plausible slip: the night-charging flag tested before the automation flag
get_automation_mode_NightFirst(h) ==
    IF ~h.present THEN "SOLAR_ONLY"
    ELSE IF h.night_charging THEN "DEFAULT"
    ELSE IF ~h.automation_on THEN "OFF"
    ELSE "SOLAR_ONLY"

\* lines 52-61
get_automation_mode(h) ==
    IF ~h.present THEN "SOLAR_ONLY"
    ELSE IF ~h.automation_on THEN "OFF"
    ELSE IF h.night_charging THEN "DEFAULT"
    ELSE "SOLAR_ONLY"

\* lines 64-70
get_night_charging_limit(h) == IF ~h.present THEN 50 ELSE h.limit

-----------------------------------------------------------------------------
(* run_charging_automation: its steps *)

\* line 129: any(v.is_charger_connected() for v in vehicles)
AnyConnected(vs) == \E i \in DOMAIN vs : vs[i].connected

\* the is_charger_connected calls any() makes: it stops at the first True
RECURSIVE ConnectivityReads(_)
ConnectivityReads(vs) ==
    IF vs = <<>> THEN <<>>
    ELSE IF vs[1].connected THEN <<Event("is_charger_connected", vs[1].kind)>>
    ELSE <<Event("is_charger_connected", vs[1].kind)>>
             \o ConnectivityReads(Tail(vs))

\* a plausible slip: only the first vehicle is switched off
UnpluggedCommands_FirstOnly(vs) == <<SetScheduleOff(vs[1].kind)>>

\* lines 131-132: for vehicle in vehicles: vehicle.set_schedule_off()
UnpluggedCommands(vs) == [i \in DOMAIN vs |-> SetScheduleOff(vs[i].kind)]

\* a plausible slip: the night policy applied to every vehicle, the tesla
\* switched off as well
NightCalls_AllVehicles(m, h, rivian) ==
    IF m = "SOLAR_ONLY"
    THEN <<SetScheduleOff("rivian"), SetScheduleOff("tesla")>>
             \o InfoMessage(h, "Charging: disabled (night off)", 0, 0)
    ELSE IF m = "DEFAULT"
    THEN <<Event("get_battery_level", "rivian")>> \o
         (IF rivian.battery < get_night_charging_limit(h)
          THEN <<SetScheduleDefault("rivian"), SetScheduleOff("tesla")>>
                   \o InfoMessage(h, "Charging: enabled (night)", rivian.AMPS_MAX, 0)
          ELSE <<SetScheduleOff("rivian"), SetScheduleOff("tesla")>>
                   \o InfoMessage(h, "Charging: disabled (night full)", 0, 0))
    ELSE <<>>

\* a plausible slip: <= in place of < at line 149
NightCalls_AtLimit(m, h, rivian) ==
    IF m = "SOLAR_ONLY"
    THEN <<SetScheduleOff("rivian")>>
             \o InfoMessage(h, "Charging: disabled (night off)", 0, 0)
    ELSE IF m = "DEFAULT"
    THEN <<Event("get_battery_level", "rivian")>> \o
         (IF rivian.battery <= get_night_charging_limit(h)
          THEN <<SetScheduleDefault("rivian")>>
                   \o InfoMessage(h, "Charging: enabled (night)", rivian.AMPS_MAX, 0)
          ELSE <<SetScheduleOff("rivian")>>
                   \o InfoMessage(h, "Charging: disabled (night full)", 0, 0))
    ELSE <<>>

\* lines 139-164: the calls of the night branch, made for the rivian client
NightCalls(m, h, rivian) ==
    IF m = "SOLAR_ONLY"
    THEN <<SetScheduleOff("rivian")>>
             \o InfoMessage(h, "Charging: disabled (night off)", 0, 0)
    ELSE IF m = "DEFAULT"
    THEN <<Event("get_battery_level", "rivian")>> \o
         (IF rivian.battery < get_night_charging_limit(h)
          THEN <<SetScheduleDefault("rivian")>>
                   \o InfoMessage(h, "Charging: enabled (night)", rivian.AMPS_MAX, 0)
          ELSE <<SetScheduleOff("rivian")>>
                   \o InfoMessage(h, "Charging: disabled (night full)", 0, 0))
    ELSE <<>>

\* a plausible slip: vehicles switched off when the read fails
FailedReadCalls_AllOff(vs) == [i \in DOMAIN vs |-> SetScheduleOff(vs[i].kind)]

\* lines 168-170: the calls made when power_flow is None: none
FailedReadCalls(vs) == <<>>

\* lines 176-179
RECURSIVE current_power(_)
current_power(vs) ==
    IF vs = <<>> THEN 0
    ELSE (IF vs[1].charging THEN vs[1].amps * 240 ELSE 0)
             + current_power(Tail(vs))

\* a plausible slip: state kept between invocations, the adjustment skipped
\* once an earlier cycle has set the tesla's amperage
InDeadband_Sticky(power_delta) ==
    Abs(power_delta) < 720 \/ ineffect["tesla"].op = "set_schedule_amps"

\* a plausible slip: <= in place of < at line 185
InDeadband_Inclusive(power_delta) == Abs(power_delta) <= 720

\* line 185: abs(power_delta) < 720
InDeadband(power_delta) == Abs(power_delta) < 720

\* a plausible slip: the clamp of line 198 left out
VehicleCommand_NoClamp(vehicle, alloc) ==
    LET vtype == IF vehicle.kind = "tesla" THEN "tesla" ELSE "rivian"
        amps == calculate_delta_amp(-(alloc[1] \div alloc[2]), vtype)
    IN  IF amps = 0 THEN SetScheduleOff(vehicle.kind)
        ELSE SetScheduleAmps(vehicle.kind, amps)

\* lines 195-202, for one pair of zip(vehicles, power_allocations). The
\* argument -base_amps * 240 is minus the allocation, a whole number of watts
\* here: with two vehicles and a whole grid reading no division leaves a
\* fraction.
VehicleCommand(vehicle, alloc) ==
    LET vtype == IF vehicle.kind = "tesla" THEN "tesla" ELSE "rivian"
        amps0 == calculate_delta_amp(-(alloc[1] \div alloc[2]), vtype)
        lo == IF amps0 < vehicle.AMPS_MAX THEN amps0 ELSE vehicle.AMPS_MAX
        amps == IF vehicle.AMPS_MIN > lo THEN vehicle.AMPS_MIN ELSE lo
    IN  IF amps = 0 THEN SetScheduleOff(vehicle.kind)
        ELSE SetScheduleAmps(vehicle.kind, amps)

\* zip stops at the shorter of the two lists
ApplyCommands(vs, allocs) ==
    LET n == IF Len(vs) < Len(allocs) THEN Len(vs) ELSE Len(allocs)
    IN  [i \in 1..n |-> VehicleCommand(vs[i], allocs[i])]

\* total_amps (lines 193, 203): the set_schedule_off branch adds its 0
RECURSIVE TotalAmps(_)
TotalAmps(cmds) ==
    IF cmds = <<>> THEN 0 ELSE cmds[1].amps + TotalAmps(Tail(cmds))

\* lines 206-214
DayInfoMessage(h, vs, total_amps, grid) ==
    IF total_amps = 0
    THEN InfoMessage(h, "Charging: disabled", 0, grid)
    ELSE LET n == Cardinality({i \in DOMAIN vs : vs[i].charging})
         IN  InfoMessage(h, CASE n = 0 -> "Charging: 0 vehicles"
                              [] n = 1 -> "Charging: 1 vehicles"
                              [] OTHER -> "Charging: 2 vehicles",
                         total_amps, grid)

Init ==
    /\ pc = "start"
    /\ hubitat \in Hubitats
    /\ hour \in Hours
    /\ mode = "unset"
    /\ vehicles = <<>>
    /\ power_flow = Unread
    /\ available_power = 0
    /\ allocations = <<>>
    /\ log = <<>>
    /\ ineffect = [v \in VehicleNames |-> NoCommand]
    /\ prev = NoPrev
    /\ Idle

\* a plausible slip: the return of lines 117-119 left out
ResolveMode_NoOffCheck ==
    /\ pc = "start"
    /\ mode' = get_automation_mode(hubitat)
    /\ log' = Append(log, Event("get_automation_mode", "hubitat"))
    /\ pc' = "clients"
    /\ UNCHANGED <<vehicles, available_power, allocations, callVars, prev, hubitat,
                   hour, power_flow, ineffect>>

\* lines 104-119: the mode is resolved; OFF ends the cycle
ResolveMode ==
    /\ pc = "start"
    /\ mode' = get_automation_mode(hubitat)
    /\ log' = Append(log, Event("get_automation_mode", "hubitat"))
    /\ pc' = IF mode' = "OFF" THEN "done" ELSE "clients"
    /\ UNCHANGED <<vehicles, available_power, allocations, callVars, prev, hubitat,
                   hour, power_flow, ineffect>>

\* lines 122-126: the three clients are constructed. TeslaAPI.__init__ catches
\* what load_session can raise (TeslaAPIBackup.py lines 20-27).
\* SolarEdgeAPI.__init__ (SolarEdgeAPI.py lines 14-20) catches nothing, and as
\* the source stands it always raises: FileNotFoundError at line 16 when
\* config.json is missing, NameError at line 17 otherwise, since
\* SolarEdgeAPI.py never imports json. The second disjunct is that outcome.
\* The first is the cycle with its clients at hand (SolarEdgeAPI given its
\* import, or substituted), which is the cycle the later steps belong to.
InitClients ==
    /\ pc = "clients"
    /\ \/ /\ vehicles' \in VehicleLists
          /\ pc' = "connectivity"
       \/ /\ UNCHANGED vehicles
          /\ pc' = "raised"
    /\ UNCHANGED <<available_power, allocations, callVars, prev, cycleVars>>

\* lines 128-135
CheckConnectivity ==
    /\ pc = "connectivity"
    /\ IF ~AnyConnected(vehicles)
       THEN LET calls == UnpluggedCommands(vehicles)
                             \o InfoMessage(hubitat, "Charging: not plugged in", 0, 0)
            IN  /\ log' = log \o ConnectivityReads(vehicles) \o calls
                /\ ineffect' = Effect(ineffect, calls)
                /\ pc' = "done"
       ELSE /\ log' = log \o ConnectivityReads(vehicles)
            /\ UNCHANGED ineffect
            /\ pc' = "night"
    /\ UNCHANGED <<vehicles, available_power, allocations, callVars, prev, hubitat,
                   mode, hour, power_flow>>

\* lines 137-164: at night the night policy runs and the cycle ends
CheckNight ==
    /\ pc = "night"
    /\ IF is_night_time(hour)
       THEN LET calls == NightCalls(mode, hubitat, vehicles[1])
            IN  /\ log' = Append(log, Event("is_night_time", "clock")) \o calls
                /\ ineffect' = Effect(ineffect, calls)
                /\ pc' = "done"
       ELSE /\ log' = Append(log, Event("is_night_time", "clock"))
            /\ UNCHANGED ineffect
            /\ pc' = "powerflow"
    /\ UNCHANGED <<vehicles, available_power, allocations, callVars, prev, hubitat,
                   mode, hour, power_flow>>

\* lines 166-170
ReadPowerFlow ==
    /\ pc = "powerflow"
    /\ power_flow' \in PowerFlowOutcomes
    /\ LET calls == IF power_flow'.status = "None"
                    THEN FailedReadCalls(vehicles) ELSE <<>>
       IN  /\ log' = Append(log, Event("get_current_power_flow", "solaredge"))
                         \o calls
           /\ ineffect' = Effect(ineffect, calls)
    /\ pc' = CASE power_flow'.status = "raised" -> "raised"
               [] power_flow'.status = "None" -> "done"
               [] OTHER -> "deadband"
    /\ UNCHANGED <<vehicles, available_power, allocations, callVars, prev, hubitat,
                   mode, hour>>

\* lines 172-187
CheckDeadband ==
    /\ pc = "deadband"
    /\ available_power' = -power_flow.grid
    /\ LET power_delta == available_power' - current_power(vehicles)
       IN  pc' = IF InDeadband(power_delta) THEN "done" ELSE "allocate"
    /\ UNCHANGED <<vehicles, allocations, callVars, prev, cycleVars>>

\* lines 189-216
ApplyAllocations ==
    /\ pc = "allocate"
    /\ allocations' = allocate_power(vehicles, available_power)
    /\ LET cmds == ApplyCommands(vehicles, allocations')
           calls == cmds \o DayInfoMessage(hubitat, vehicles, TotalAmps(cmds),
                                          power_flow.grid)
       IN  /\ log' = log \o calls
           /\ ineffect' = Effect(ineffect, calls)
    /\ pc' = "done"
    /\ UNCHANGED <<vehicles, available_power, callVars, prev, hubitat, mode, hour,
                   power_flow>>

\* the external scheduler invokes the next cycle; nothing of the last one is
\* kept but what the vehicles were told
NextCycle ==
    /\ pc = "done"
    /\ pc' = "start"
    /\ hubitat' \in Hubitats
    /\ hour' \in Hours
    /\ mode' = "unset"
    /\ vehicles' = <<>>
    /\ power_flow' = Unread
    /\ available_power' = 0
    /\ allocations' = <<>>
    /\ log' = <<>>
    /\ UNCHANGED <<callVars, prev, ineffect>>

Next ==
    \/ ResolveMode
    \/ InitClients
    \/ CheckConnectivity
    \/ CheckNight
    \/ ReadPowerFlow
    \/ CheckDeadband
    \/ ApplyAllocations
    \/ NextCycle

Spec == Init /\ [][Next]_vars

-----------------------------------------------------------------------------
(* Claims about run_charging_automation, checked under Spec *)

Done == pc = "done"
Commands == SelectSeq(log, IsCommand)
IsReport(e) == e.op = "set_info_message"
Reports == SelectSeq(log, IsReport)
CommandsTo(v) == SelectSeq(log, LAMBDA e : IsCommand(e) /\ e.v = v)
Called(op) == \E i \in DOMAIN log : log[i].op = op
\* the clients were constructed and the vehicles read in this cycle
VehiclesRead == vehicles # <<>>

\* power_delta as the claim defines it: (-grid) minus the commanded amps * 240
\* of the vehicles that are charging
ClaimPowerDelta ==
    LET drawn(v) == IF v.charging THEN v.amps * 240 ELSE 0
    IN  (-power_flow.grid) - (drawn(vehicles[1]) + drawn(vehicles[2]))

\* C6 (deadband): in a finished day-time cycle with a vehicle connected and a
\* successful power-flow read, no command was issued when |power_delta| < 720,
\* and when |power_delta| >= 720 allocate_power ran and every vehicle was
\* issued a command.
C6_Deadband ==
    (/\ Done
     /\ VehiclesRead
     /\ AnyConnected(vehicles)
     /\ ~is_night_time(hour)
     /\ power_flow.status = "ok")
        => /\ Abs(ClaimPowerDelta) < 720
                => (Commands = <<>> /\ allocations = <<>>)
           /\ Abs(ClaimPowerDelta) >= 720
                => /\ Len(allocations) = Len(vehicles)
                   /\ \A i \in DOMAIN vehicles :
                          Len(CommandsTo(vehicles[i].kind)) = 1

\* a day-time cycle with power_delta = 721 W that commanded both vehicles
C6_Witness ==
    /\ Done
    /\ VehiclesRead
    /\ power_flow.status = "ok"
    /\ ClaimPowerDelta = 721
    /\ Len(Commands) = 2
    /\ \E i \in DOMAIN vehicles : vehicles[i].charging

\* C7 (mode resolution): the resolved mode is SOLAR_ONLY without a provider;
\* with one it is OFF when automation is disabled whatever the night-charging
\* flag, DEFAULT when automation and night charging are enabled, SOLAR_ONLY
\* when automation is enabled and night charging is not.
C7_ModeResolution ==
    mode # "unset" =>
        /\ ~hubitat.present => mode = "SOLAR_ONLY"
        /\ (hubitat.present /\ ~hubitat.automation_on) => mode = "OFF"
        /\ (hubitat.present /\ hubitat.automation_on /\ hubitat.night_charging)
               => mode = "DEFAULT"
        /\ (hubitat.present /\ hubitat.automation_on /\ ~hubitat.night_charging)
               => mode = "SOLAR_ONLY"

\* automation disabled with night charging enabled resolved to OFF
C7_Witness ==
    /\ hubitat.present
    /\ ~hubitat.automation_on
    /\ hubitat.night_charging
    /\ mode = "OFF"

\* C8 (unplugged): a finished cycle whose mode is not OFF and whose vehicles
\* all report disconnected issued exactly one command to each vehicle, an
\* 'off', and no other; its status report, made exactly when a provider is
\* present, carries 0 amps and 0 watts; it evaluated neither the night nor
\* the day logic, at any hour.
C8_Unplugged ==
    (/\ Done
     /\ mode \in {"DEFAULT", "SOLAR_ONLY"}
     /\ VehiclesRead
     /\ \A i \in DOMAIN vehicles : ~vehicles[i].connected)
        => /\ Len(Commands) = Len(vehicles)
           /\ \A i \in DOMAIN vehicles :
                  CommandsTo(vehicles[i].kind) = <<SetScheduleOff(vehicles[i].kind)>>
           /\ Len(Reports) = (IF hubitat.present THEN 1 ELSE 0)
           /\ \A i \in DOMAIN Reports :
                  Reports[i].amps = 0 /\ Reports[i].grid = 0
           /\ ~Called("is_night_time")
           /\ ~Called("get_current_power_flow")
           /\ power_flow = Unread
           /\ allocations = <<>>

\* an unplugged cycle at a night hour with a provider: two 'off' commands and
\* one report
C8_Witness ==
    /\ Done
    /\ mode = "DEFAULT"
    /\ VehiclesRead
    /\ \A i \in DOMAIN vehicles : ~vehicles[i].connected
    /\ is_night_time(hour)
    /\ Len(Commands) = 2
    /\ Len(Reports) = 1

\* the night charging limit as the claim gives it
ClaimNightLimit == IF hubitat.present THEN hubitat.limit ELSE 50

\* C9 (night policy): a finished cycle in the night window (hour < 10 or
\* hour >= 18) with a vehicle connected sent the designated vehicle (rivian)
\* 'off' in SOLAR_ONLY mode, the vendor default amperage in DEFAULT mode with
\* its battery level strictly below the night charging limit, and 'off' in
\* DEFAULT mode with the level at or above the limit.
C9_NightPolicy ==
    (/\ Done
     /\ VehiclesRead
     /\ AnyConnected(vehicles)
     /\ (hour < 10 \/ hour >= 18)
     /\ mode \in {"DEFAULT", "SOLAR_ONLY"})
        => CommandsTo("rivian") =
              <<IF mode = "SOLAR_ONLY" THEN SetScheduleOff("rivian")
                ELSE IF vehicles[1].battery < ClaimNightLimit
                     THEN SetScheduleDefault("rivian")
                     ELSE SetScheduleOff("rivian")>>

\* DEFAULT mode at night, battery 40 under the limit 50: the vendor default
C9_Witness ==
    /\ Done
    /\ VehiclesRead
    /\ mode = "DEFAULT"
    /\ hour >= 18
    /\ vehicles[1].battery = 40
    /\ hubitat.limit = 50
    /\ CommandsTo("rivian") = <<SetScheduleDefault("rivian")>>

\* C10 (power-flow fail-safe): the step in which get_current_power_flow
\* returns None ends the cycle, leaves the log of the cycle without a command
\* or a status report, and leaves in effect what each vehicle was last told.
C10_PowerFlowFailSafe ==
    [][(pc = "powerflow" /\ power_flow'.status = "None")
          => /\ pc' = "done"
             /\ SelectSeq(log', LAMBDA e : IsCommand(e) \/ IsReport(e)) = <<>>
             /\ ineffect' = ineffect]_vars

\* a cycle ended by a failed read while the command of an earlier cycle to
\* the tesla is still in effect
C10_Witness ==
    /\ Done
    /\ power_flow.status = "None"
    /\ Commands = <<>>
    /\ ineffect["tesla"].op = "set_schedule_amps"

\* the vehicle of the cycle a command is addressed to
VehicleOf(c) == CHOOSE v \in {vehicles[i] : i \in DOMAIN vehicles} : v.kind = c.v

\* the step size the claims give each vehicle: 1 for Tesla, 2 for Rivian
ClaimStep(v) == IF v.kind = "tesla" THEN 1 ELSE 2

\* a within [AMPS_MIN, AMPS_MAX] of v and a whole number of steps above AMPS_MIN
LegalAmps(a, v) ==
    /\ v.AMPS_MIN <= a
    /\ a <= v.AMPS_MAX
    /\ (a - v.AMPS_MIN) % ClaimStep(v) = 0

\* the cycle took the day-time path as far as the per-vehicle commands
DayCommandsIssued == Done /\ power_flow.status = "ok" /\ allocations # <<>>

\* C11 (commanded amperage bounds): every command the day-time path issued is
\* 'off' or a set-amperage command whose value, as the cycle passes it and as
\* the client sends it, lies in [AMPS_MIN, AMPS_MAX] of its vehicle a whole
\* number of that vehicle's steps above AMPS_MIN.
C11_CommandedAmpsBounds ==
    (Done /\ power_flow.status = "ok")
        => \A i \in DOMAIN Commands :
               LET c == Commands[i] IN
               \/ c.op = "set_schedule_off"
               \/ /\ c.op = "set_schedule_amps"
                  /\ LegalAmps(c.amps, VehicleOf(c))
                  /\ Sent(c).op = "set_schedule_amps"
                  /\ LegalAmps(Sent(c).amps, VehicleOf(c))
                  /\ ineffect[c.v] = Sent(c)

\* a day-time cycle with 5000 W exported that set an amperage on both vehicles
C11_Witness ==
    /\ DayCommandsIssued
    /\ power_flow.grid = -5000
    /\ \A i \in DOMAIN vehicles : vehicles[i].connected
    /\ Len(Commands) = 2
    /\ \A i \in DOMAIN Commands : Commands[i].op = "set_schedule_amps"

\* C12 (no exception escapes): whatever the external calls of a cycle do, the
\* cycle never ends in an uncaught error.
C12_NoExceptionEscapes == pc # "raised"

\* the cycle has finished in the night window with a vehicle connected
NightCycleDone ==
    /\ Done
    /\ VehiclesRead
    /\ AnyConnected(vehicles)
    /\ is_night_time(hour)

\* C14 (night frame): a night-window cycle with a vehicle connected issued
\* exactly one command, to the rivian, none to the tesla whatever the tesla's
\* state, and neither read the power flow nor ran the allocation.
C14_NightFrame ==
    NightCycleDone
        => /\ Len(Commands) = 1
           /\ Commands[1].v = "rivian"
           /\ CommandsTo("tesla") = <<>>
           /\ ~Called("get_current_power_flow")
           /\ power_flow = Unread
           /\ allocations = <<>>
           /\ available_power = 0

\* a night cycle in which only the tesla is plugged in, and charging: the one
\* command went to the rivian
C14_Witness ==
    /\ NightCycleDone
    /\ ~vehicles[1].connected
    /\ vehicles[2].connected
    /\ vehicles[2].charging
    /\ Len(Commands) = 1
    /\ Commands[1].v = "rivian"

\* the place of a logged call among the four steps the claim orders: mode
\* resolution, connectivity check, power-flow read, per-vehicle commands;
\* 0 for a call that is none of them
StepRank(e) ==
    CASE e.op = "get_automation_mode" -> 1
      [] e.op = "is_charger_connected" -> 2
      [] e.op = "get_current_power_flow" -> 3
      [] IsCommand(e) -> 4
      [] OTHER -> 0

C16_AlwaysAmpsMin ==
    /\ DayCommandsIssued
           => Commands = [i \in DOMAIN vehicles |->
                             SetScheduleAmps(vehicles[i].kind, vehicles[i].AMPS_MIN)]
    /\ (Done /\ power_flow.status = "ok")
           => \A i \in DOMAIN Commands : Commands[i].op # "set_schedule_off"

\* 5000 W exported, both vehicles plugged in, the whole of it allocated to one
\* of them: both are set to their minimum
C16_Witness ==
    /\ DayCommandsIssued
    /\ power_flow.grid = -5000
    /\ \A i \in DOMAIN vehicles : vehicles[i].connected
    /\ \E i \in DOMAIN allocations : allocations[i] = RatInt(5000)
    /\ Commands = <<SetScheduleAmps("rivian", RivianAMPS_MIN),
                    SetScheduleAmps("tesla", TeslaAMPS_MIN)>>

-----------------------------------------------------------------------------
(* Two consecutive cycles that observe the same *)

\* The scheduler invokes the cycle again after a day-time cycle that read the
\* power flow. What that cycle observed and commanded is kept for comparison;
\* the provider resolves to the same mode and the hour is again a day hour.
InvokeAgain ==
    /\ pc = "done"
    /\ ~prev.recorded
    /\ power_flow.status = "ok"
    /\ prev' = [recorded |-> TRUE, mode |-> mode, vehicles |-> vehicles,
                power_flow |-> power_flow, commands |-> Commands]
    /\ pc' = "start"
    /\ hubitat' \in {h \in Hubitats : get_automation_mode(h) = mode}
    /\ hour' \in {h \in Hours : ~is_night_time(h)}
    /\ mode' = "unset"
    /\ vehicles' = <<>>
    /\ power_flow' = Unread
    /\ available_power' = 0
    /\ allocations' = <<>>
    /\ log' = <<>>
    /\ UNCHANGED <<callVars, ineffect>>

\* lines 122-126, the vehicles answering the second cycle as they answered
\* the first
InitClientsSame ==
    /\ InitClients
    /\ (prev.recorded /\ pc' = "connectivity") => vehicles' = prev.vehicles

\* lines 166-170, the solar provider answering the second cycle as it
\* answered the first
ReadPowerFlowSame ==
    /\ ReadPowerFlow
    /\ prev.recorded => power_flow' = prev.power_flow

NextTwice ==
    \/ ResolveMode
    \/ InitClientsSame
    \/ CheckConnectivity
    \/ CheckNight
    \/ ReadPowerFlowSame
    \/ CheckDeadband
    \/ ApplyAllocations
    \/ InvokeAgain

SpecTwice == Init /\ [][NextTwice]_vars

\* the second cycle has finished having observed what the first observed
SameObservations ==
    /\ Done
    /\ prev.recorded
    /\ mode = prev.mode
    /\ vehicles = prev.vehicles
    /\ power_flow = prev.power_flow

====
